---- MODULE Spec2Model ----
(***************************************************************************)
(* The record codecs of src/src/schema.rs: DataEntry (checksum, level,     *)
(* sizes, key, value) and HintEntry (level, sizes, position, key), their   *)
(* encoders, their decoders over a std::io::Read cursor, check_crc and     *)
(* is_deleted.                                                             *)
(*                                                                         *)
(* Integers.  TLC's integers are 32 bits wide, the program's are 32 and 64 *)
(* bits wide.  A u32 is held as its two 16-bit halves <<hi, lo>>.  An i64  *)
(* or u64 is held as an integer and is in the model's range when it fits   *)
(* 24 bits (sign included for i64): its big-endian form then has five      *)
(* leading bytes of sign extension.  Decode is taken only on headers in    *)
(* range.                                                                  *)
(***************************************************************************)
EXTENDS Integers, Sequences, FiniteSets, TLC

(***************************************************************************)
(* Bounds of the model.                                                    *)
(***************************************************************************)
\* records appended to a data log
MaxRecs == 2
\* records appended to a hint stream
MaxHints == 1
\* largest data_entry_position given to HintEntry::from
MaxPos == 1
\* largest key_size / value_size a decode allocates a buffer for
MaxAlloc == 8

(***************************************************************************)
(* Bytes and fixed-width integers.                                         *)
(***************************************************************************)
Byte == 0..255

Zeros(n) == [i \in 1..n |-> 0]

RECURSIVE XorBits(_, _, _)
XorBits(a, b, n) ==
    IF n = 0 THEN 0
    ELSE (((a % 2) + (b % 2)) % 2) + 2 * XorBits(a \div 2, b \div 2, n - 1)

XorTable == [a \in Byte |-> [b \in Byte |-> XorBits(a, b, 8)]]

Xor(a, b) == XorTable[a][b]

\* u32::to_be_bytes
U32ToBe(w) == <<w[1] \div 256, w[1] % 256, w[2] \div 256, w[2] % 256>>

\* u32::from_be_bytes
U32FromBe(b) == <<b[1] * 256 + b[2], b[3] * 256 + b[4]>>

\* the low three bytes of a value in 0 .. 2^24 - 1, most significant first
Low3(m) == <<m \div 65536, (m \div 256) % 256, m % 256>>

\* u64::to_be_bytes replaced by to_le_bytes
U64ToBe_little_endian(n) == <<n % 256, (n \div 256) % 256, n \div 65536>> \o Zeros(5)

\* u64::to_be_bytes
U64ToBe(n) == Zeros(5) \o Low3(n)

\* i64::to_be_bytes (two's complement)
I64ToBe(n) ==
    IF n >= 0 THEN Zeros(5) \o Low3(n)
    ELSE [i \in 1..5 |-> 255] \o Low3(n + 16777216)

\* the eight bytes hold a u64 below 2^24
U64InRange(b) == \A i \in 1..5 : b[i] = 0

\* the eight bytes hold an i64 in -2^23 .. 2^23 - 1
I64InRange(b) ==
    \/ (\A i \in 1..5 : b[i] = 0) /\ b[6] < 128
    \/ (\A i \in 1..5 : b[i] = 255) /\ b[6] >= 128

\* u64::from_be_bytes
U64FromBe(b) == b[6] * 65536 + b[7] * 256 + b[8]

\* i64::from_be_bytes replaced by a conversion that drops the sign
I64FromBe_unsigned(b) == b[6] * 65536 + b[7] * 256 + b[8]

\* i64::from_be_bytes
I64FromBe(b) ==
    IF b[1] >= 128 THEN b[6] * 65536 + b[7] * 256 + b[8] - 16777216
    ELSE b[6] * 65536 + b[7] * 256 + b[8]

(***************************************************************************)
(* crc_checksum: crc32fast's Hasher is CRC-32 (IEEE 802.3): reflected      *)
(* polynomial 0xEDB88320, initial register and final xor 0xFFFFFFFF.  The  *)
(* register is four bytes, most significant first.                         *)
(***************************************************************************)
CrcPoly == <<237, 184, 131, 32>>

Shr1(c) ==
    <<c[1] \div 2,
      (c[1] % 2) * 128 + c[2] \div 2,
      (c[2] % 2) * 128 + c[3] \div 2,
      (c[3] % 2) * 128 + c[4] \div 2>>

XorWord(c, d) == [i \in 1..4 |-> Xor(c[i], d[i])]

RECURSIVE CrcEntry(_, _)
CrcEntry(c, n) ==
    IF n = 0 THEN c
    ELSE CrcEntry(IF c[4] % 2 = 1 THEN XorWord(Shr1(c), CrcPoly) ELSE Shr1(c),
                  n - 1)

CrcTable == [i \in Byte |-> CrcEntry(<<0, 0, 0, i>>, 8)]

\* Hasher::update on one byte: table[(reg ^ b) & 0xFF] ^ (reg >> 8)
CrcUpdate(c, b) ==
    LET t == CrcTable[Xor(c[4], b)]
    IN  <<t[1], Xor(t[2], c[1]), Xor(t[3], c[2]), Xor(t[4], c[3])>>

\* a 32-bit register
Word == [1..4 -> Byte]

\* Hasher::update on payload[i..]; each register is computed before the next
RECURSIVE CrcRun(_, _, _)
CrcRun(c, payload, i) ==
    IF i > Len(payload) THEN c
    ELSE CASE c \in Word -> CrcRun(CrcUpdate(c, payload[i]), payload, i + 1)

\* a digest of the 24 header bytes of the content only
crc_checksum_header_only(payload) ==
    LET c == CrcRun(<<255, 255, 255, 255>>,
                    SubSeq(payload, 1, IF Len(payload) < 24 THEN Len(payload) ELSE 24), 1)
    IN  U32FromBe([i \in 1..4 |-> 255 - c[i]])

crc_checksum(payload) ==
    LET c == CrcRun(<<255, 255, 255, 255>>, payload, 1)
    IN  U32FromBe([i \in 1..4 |-> 255 - c[i]])

(***************************************************************************)
(* Inputs.  Keys and Values hold the empty sequence, the key and value of  *)
(* tests::decode_encode_test, and a four-byte value under which            *)
(* level 0 ++ key_size 0 ++ value_size 4 ++ value has the digest of        *)
(* level 0 ++ key_size 0 ++ value_size 0.                                  *)
(***************************************************************************)
Levels == {-1, 0}

Keys == {<<>>, <<2, 2, 3, 54, 12>>}

Values == {<<>>, <<32, 4, 1, 32, 65, 78>>, <<180, 149, 121, 171>>}

Positions == 0..MaxPos

(***************************************************************************)
(* DataEntry                                                               *)
(***************************************************************************)
new(level, key, value) ==
    [crc |-> <<0, 0>>,
     level |-> level,
     key_size |-> Len(key),
     value_size |-> Len(value),
     key |-> key,
     value |-> value]

encode_content(e) ==
    I64ToBe(e.level) \o U64ToBe(e.key_size) \o U64ToBe(e.value_size)
        \o e.key \o e.value

DataEntry_encode(e) ==
    LET content == encode_content(e)
        crc == crc_checksum(content)
    IN  U32ToBe(crc) \o content

check_crc(e) == e.crc = crc_checksum(encode_content(e))

(***************************************************************************)
(* Read::read_exact(buf) on stream s with the cursor at p, for a buffer of *)
(* n zero bytes (the decoders create every buffer zeroed).  With n bytes   *)
(* left it fills the buffer and advances by n.  Otherwise it returns Err,  *)
(* and what the buffer and the cursor then hold depends on the reader:     *)
(*   "fill"  the default Read::read_exact (a File): the bytes left are     *)
(*           copied to the front of the buffer and consumed;               *)
(*   "keep"  &[u8] and io::Cursor up to Rust 1.79: buffer and cursor are   *)
(*           untouched;                                                    *)
(*   "eof"   io::Cursor since Rust 1.80: the buffer is untouched, the      *)
(*           cursor moves to the end.                                      *)
(***************************************************************************)
Readers == {"fill", "keep", "eof"}

read_exact(s, p, n, rdr) ==
    IF n <= Len(s) - p
    THEN [ok |-> TRUE, buf |-> SubSeq(s, p + 1, p + n), pos |-> p + n]
    ELSE [ok |-> FALSE,
          buf |-> IF rdr = "fill"
                  THEN SubSeq(s, p + 1, Len(s)) \o Zeros(n - (Len(s) - p))
                  ELSE Zeros(n),
          pos |-> IF rdr = "keep" THEN p ELSE Len(s)]

\* DataEntry::decode, the four header reads, each followed by `?`
DataHeader(s, p, rdr) ==
    LET c == read_exact(s, p, 4, rdr)
        l == read_exact(s, c.pos, 8, rdr)
        k == read_exact(s, l.pos, 8, rdr)
        v == read_exact(s, k.pos, 8, rdr)
    IN  IF ~c.ok THEN [ok |-> FALSE, pos |-> c.pos]
        ELSE IF ~l.ok THEN [ok |-> FALSE, pos |-> l.pos]
        ELSE IF ~k.ok THEN [ok |-> FALSE, pos |-> k.pos]
        ELSE IF ~v.ok THEN [ok |-> FALSE, pos |-> v.pos]
        ELSE [ok |-> TRUE, pos |-> v.pos, raw |-> c.buf \o l.buf \o k.buf \o v.buf]

\* the value buffer sized by key_size
DataBody_value_by_key_size(s, p, key_size, value_size, rdr) ==
    LET k == read_exact(s, p, key_size, rdr)
        v == read_exact(s, k.pos, key_size, rdr)
    IN  [key |-> k.buf, value |-> v.buf, pos |-> v.pos,
         failed |-> ~k.ok \/ ~v.ok]

\* buffers that grow with the bytes read, so a short read leaves them short
DataBody_truncating(s, p, key_size, value_size, rdr) ==
    LET k == read_exact(s, p, key_size, "fill")
        v == read_exact(s, k.pos, value_size, "fill")
    IN  [key |-> IF k.ok THEN k.buf ELSE SubSeq(s, p + 1, Len(s)),
         value |-> IF v.ok THEN v.buf ELSE SubSeq(s, k.pos + 1, Len(s)),
         pos |-> v.pos,
         failed |-> ~k.ok \/ ~v.ok]

\* DataEntry::decode, the key and value reads, whose results are dropped
DataBody(s, p, key_size, value_size, rdr) ==
    LET k == read_exact(s, p, key_size, rdr)
        v == read_exact(s, k.pos, value_size, rdr)
    IN  [key |-> k.buf, value |-> v.buf, pos |-> v.pos,
         failed |-> ~k.ok \/ ~v.ok]

\* a decode that fails on a checksum mismatch
DataEntry_decode_verifying(s, p, rdr) ==
    LET h == DataHeader(s, p, rdr) IN
    IF ~h.ok THEN [st |-> "err", pos |-> h.pos, failed |-> TRUE]
    ELSE
        LET key_size == U64FromBe(SubSeq(h.raw, 13, 20))
            value_size == U64FromBe(SubSeq(h.raw, 21, 28))
            b == DataBody(s, h.pos, key_size, value_size, rdr)
            e == [crc |-> U32FromBe(SubSeq(h.raw, 1, 4)),
                  level |-> I64FromBe(SubSeq(h.raw, 5, 12)),
                  key_size |-> key_size, value_size |-> value_size,
                  key |-> b.key, value |-> b.value]
        IN  IF check_crc(e)
            THEN [st |-> "ok", rec |-> e, pos |-> b.pos, failed |-> b.failed]
            ELSE [st |-> "err", pos |-> b.pos, failed |-> TRUE]

DataEntry_decode(s, p, rdr) ==
    LET h == DataHeader(s, p, rdr) IN
    IF ~h.ok THEN [st |-> "err", pos |-> h.pos, failed |-> TRUE]
    ELSE
        LET crc == U32FromBe(SubSeq(h.raw, 1, 4))
            level == I64FromBe(SubSeq(h.raw, 5, 12))
            key_size == U64FromBe(SubSeq(h.raw, 13, 20))
            value_size == U64FromBe(SubSeq(h.raw, 21, 28))
            b == DataBody(s, h.pos, key_size, value_size, rdr)
        IN  [st |-> "ok",
             rec |-> [crc |-> crc, level |-> level, key_size |-> key_size,
                      value_size |-> value_size, key |-> b.key,
                      value |-> b.value],
             pos |-> b.pos,
             failed |-> b.failed]

(***************************************************************************)
(* HintEntry                                                               *)
(***************************************************************************)
\* the position not stored
from_without_position(entry, position) ==
    [level |-> entry.level,
     key_size |-> entry.key_size,
     value_size |-> entry.value_size,
     data_entry_position |-> 0,
     key |-> entry.key]

from(entry, position) ==
    [level |-> entry.level,
     key_size |-> entry.key_size,
     value_size |-> entry.value_size,
     data_entry_position |-> position,
     key |-> entry.key]

tombstone(key) ==
    [level |-> -1,
     key_size |-> Len(key),
     value_size |-> 0,
     data_entry_position |-> 0,
     key |-> key]

\* the level alone decides
is_deleted_by_level(h) == h.level < 0

is_deleted(h) ==
    h.level < 0 /\ h.value_size = 0 /\ h.data_entry_position = 0

HintEntry_encode(h) ==
    I64ToBe(h.level) \o U64ToBe(h.key_size) \o U64ToBe(h.value_size)
        \o U64ToBe(h.data_entry_position) \o h.key

\* HintEntry::decode, the four header reads, each followed by `?`
HintHeader(s, p, rdr) ==
    LET l == read_exact(s, p, 8, rdr)
        k == read_exact(s, l.pos, 8, rdr)
        v == read_exact(s, k.pos, 8, rdr)
        d == read_exact(s, v.pos, 8, rdr)
    IN  IF ~l.ok THEN [ok |-> FALSE, pos |-> l.pos]
        ELSE IF ~k.ok THEN [ok |-> FALSE, pos |-> k.pos]
        ELSE IF ~v.ok THEN [ok |-> FALSE, pos |-> v.pos]
        ELSE IF ~d.ok THEN [ok |-> FALSE, pos |-> d.pos]
        ELSE [ok |-> TRUE, pos |-> d.pos, raw |-> l.buf \o k.buf \o v.buf \o d.buf]

\* HintEntry::decode, the key read, whose result is dropped
HintBody(s, p, key_size, rdr) ==
    LET k == read_exact(s, p, key_size, rdr)
    IN  [key |-> k.buf, pos |-> k.pos, failed |-> ~k.ok]

HintEntry_decode(s, p, rdr) ==
    LET h == HintHeader(s, p, rdr) IN
    IF ~h.ok THEN [st |-> "err", pos |-> h.pos, failed |-> TRUE]
    ELSE
        LET level == I64FromBe(SubSeq(h.raw, 1, 8))
            key_size == U64FromBe(SubSeq(h.raw, 9, 16))
            value_size == U64FromBe(SubSeq(h.raw, 17, 24))
            position == U64FromBe(SubSeq(h.raw, 25, 32))
            b == HintBody(s, h.pos, key_size, rdr)
        IN  [st |-> "ok",
             rec |-> [level |-> level, key_size |-> key_size,
                      value_size |-> value_size,
                      data_entry_position |-> position, key |-> b.key],
             pos |-> b.pos,
             failed |-> b.failed]

(***************************************************************************)
(* The state: one file (a data log or a hint stream) that is written,      *)
(* then possibly damaged, then scanned by one cursor.                      *)
(***************************************************************************)
VARIABLES
    file,       \* "data" or "hint": the record type the file holds
    written,    \* the arguments of the constructors, in append order
    stream,     \* the bytes of the file
    harm,       \* what was done to the bytes after writing
    pos,        \* the cursor: bytes consumed so far
    results     \* what each decode call returned, in call order

vars == <<file, written, stream, harm, pos, results>>

NoHarm == [kind |-> "none", at |-> 0, bit |-> 0]

\* the entry a written item constructs
Built(w) ==
    IF w.op = "new" THEN new(w.level, w.key, w.value)
    ELSE IF w.op = "from" THEN from(w.entry, w.position)
    ELSE tombstone(w.key)

\* the bytes a written item appends
Encoded(w) ==
    IF w.op = "new" THEN DataEntry_encode(Built(w))
    ELSE HintEntry_encode(Built(w))

Init ==
    /\ file \in {"data", "hint"}
    /\ written = <<>>
    /\ stream = <<>>
    /\ harm = NoHarm
    /\ pos = 0
    /\ results = <<>>

Writing == harm = NoHarm /\ results = <<>>

\* DataEntry::new(level, key, value).encode() appended to the log
AppendData(level, key, value) ==
    LET w == [op |-> "new", level |-> level, key |-> key, value |-> value] IN
    /\ file = "data"
    /\ Writing
    /\ Len(written) < MaxRecs
    /\ written' = Append(written, w)
    /\ stream' = stream \o Encoded(w)
    /\ UNCHANGED <<file, harm, pos, results>>

\* HintEntry::from(&entry, position).encode() appended to the hint stream
AppendHint(entry, position) ==
    LET w == [op |-> "from", entry |-> entry, position |-> position] IN
    /\ file = "hint"
    /\ Writing
    /\ Len(written) < MaxHints
    /\ written' = Append(written, w)
    /\ stream' = stream \o Encoded(w)
    /\ UNCHANGED <<file, harm, pos, results>>

\* HintEntry::tombstone(key).encode() appended to the hint stream
AppendTombstone(key) ==
    LET w == [op |-> "tombstone", key |-> key] IN
    /\ file = "hint"
    /\ Writing
    /\ Len(written) < MaxHints
    /\ written' = Append(written, w)
    /\ stream' = stream \o Encoded(w)
    /\ UNCHANGED <<file, harm, pos, results>>

\* the file loses its last n bytes, all of them bytes of the last record
Cut(n) ==
    /\ Writing
    /\ written # <<>>
    /\ n \in 1..Len(Encoded(written[Len(written)]))
    /\ stream' = SubSeq(stream, 1, Len(stream) - n)
    /\ harm' = [kind |-> "cut", at |-> Len(stream) - n, bit |-> 0]
    /\ UNCHANGED <<file, written, pos, results>>

Pow2(b) == CASE b = 0 -> 1 [] b = 1 -> 2 [] b = 2 -> 4 [] b = 3 -> 8
             [] b = 4 -> 16 [] b = 5 -> 32 [] b = 6 -> 64 [] b = 7 -> 128

\* one bit of a file of one record is flipped
Flip(at, bit) ==
    /\ Writing
    /\ Len(written) = 1
    /\ at \in 1..Len(stream)
    /\ stream' = [stream EXCEPT ![at] = Xor(@, Pow2(bit))]
    /\ harm' = [kind |-> "flip", at |-> at, bit |-> bit]
    /\ UNCHANGED <<file, written, pos, results>>

\* the header at p, when the stream holds one, is in the model's range
DataInRange(s, p) ==
    Len(s) - p >= 28 =>
        /\ I64InRange(SubSeq(s, p + 5, p + 12))
        /\ U64InRange(SubSeq(s, p + 13, p + 20))
        /\ U64InRange(SubSeq(s, p + 21, p + 28))
        /\ U64FromBe(SubSeq(s, p + 13, p + 20)) <= MaxAlloc
        /\ U64FromBe(SubSeq(s, p + 21, p + 28)) <= MaxAlloc

HintInRange(s, p) ==
    Len(s) - p >= 32 =>
        /\ I64InRange(SubSeq(s, p + 1, p + 8))
        /\ U64InRange(SubSeq(s, p + 9, p + 16))
        /\ U64InRange(SubSeq(s, p + 17, p + 24))
        /\ U64InRange(SubSeq(s, p + 25, p + 32))
        /\ U64FromBe(SubSeq(s, p + 9, p + 16)) <= MaxAlloc

\* the reader is the same in every call: a call whose read failed shows it
SameReader(rdr) == \A i \in DOMAIN results : results[i].rdr \in {"-", rdr}

\* a scanner checks a data record before it decodes the next one
Checked ==
    (results # <<>> /\ results[Len(results)].st = "ok")
        => results[Len(results)].checked

\* DataEntry::decode(&mut rdr)
DecodeData(rdr) ==
    LET d == DataEntry_decode(stream, pos, rdr) IN
    /\ file = "data"
    /\ Len(results) <= Len(written)
    /\ Checked
    /\ SameReader(rdr)
    /\ DataInRange(stream, pos)
    /\ pos' = d.pos
    /\ results' = Append(results,
            [st |-> d.st,
             rec |-> IF d.st = "ok" THEN d.rec ELSE <<>>,
             start |-> pos, end |-> d.pos,
             rdr |-> IF d.failed THEN rdr ELSE "-",
             checked |-> FALSE, answer |-> FALSE])
    /\ UNCHANGED <<file, written, stream, harm>>

\* HintEntry::decode(&mut rdr)
DecodeHint(rdr) ==
    LET d == HintEntry_decode(stream, pos, rdr) IN
    /\ file = "hint"
    /\ Len(results) <= Len(written)
    /\ Checked
    /\ SameReader(rdr)
    /\ HintInRange(stream, pos)
    /\ pos' = d.pos
    /\ results' = Append(results,
            [st |-> d.st,
             rec |-> IF d.st = "ok" THEN d.rec ELSE <<>>,
             start |-> pos, end |-> d.pos,
             rdr |-> IF d.failed THEN rdr ELSE "-",
             checked |-> FALSE, answer |-> FALSE])
    /\ UNCHANGED <<file, written, stream, harm>>

\* check_crc() on the record the last decode returned
CheckCrc ==
    /\ file = "data"
    /\ results # <<>>
    /\ results[Len(results)].st = "ok"
    /\ ~results[Len(results)].checked
    /\ results' = [results EXCEPT
                        ![Len(results)].checked = TRUE,
                        ![Len(results)].answer =
                            check_crc(results[Len(results)].rec)]
    /\ UNCHANGED <<file, written, stream, harm, pos>>

\* is_deleted() on the hint the last decode returned
IsDeleted ==
    /\ file = "hint"
    /\ results # <<>>
    /\ results[Len(results)].st = "ok"
    /\ ~results[Len(results)].checked
    /\ results' = [results EXCEPT
                        ![Len(results)].checked = TRUE,
                        ![Len(results)].answer =
                            is_deleted(results[Len(results)].rec)]
    /\ UNCHANGED <<file, written, stream, harm, pos>>

DataEntries == {new(l, k, v) : l \in Levels, k \in Keys, v \in Values}

Next ==
    \/ \E l \in Levels, k \in Keys, v \in Values : AppendData(l, k, v)
    \/ \E e \in DataEntries, p \in Positions : AppendHint(e, p)
    \/ \E k \in Keys : AppendTombstone(k)
    \/ \E n \in 1..(32 + MaxAlloc + MaxAlloc) : Cut(n)
    \/ \E at \in 1..(32 + MaxAlloc + MaxAlloc), bit \in 0..7 : Flip(at, bit)
    \/ \E rdr \in Readers : DecodeData(rdr)
    \/ \E rdr \in Readers : DecodeHint(rdr)
    \/ CheckCrc
    \/ IsDeleted

Spec == Init /\ [][Next]_vars

(***************************************************************************)
(* What the claims speak of.                                               *)
(***************************************************************************)
\* the length the layout gives the encoding of a written item
LayoutLen(w) ==
    IF w.op = "new" THEN 28 + Len(w.key) + Len(w.value)
    ELSE IF w.op = "from" THEN 32 + Len(w.entry.key)
    ELSE 32 + Len(w.key)

\* the offset the layout gives the i-th written item
RECURSIVE LayoutOff(_)
LayoutOff(i) == IF i = 1 THEN 0 ELSE LayoutOff(i - 1) + LayoutLen(written[i - 1])

\* b is the 8-byte big-endian two's complement form of n
IsBigEndian64(b, n) ==
    /\ Len(b) = 8
    /\ \A i \in 1..5 : b[i] = (IF n < 0 THEN 255 ELSE 0)
    /\ b[6] * 65536 + b[7] * 256 + b[8] = (IF n < 0 THEN n + 16777216 ELSE n)

\* b is the 4-byte big-endian form of the u32 w
IsBigEndian32(b, w) ==
    /\ Len(b) = 4
    /\ b[1] * 256 + b[2] = w[1]
    /\ b[3] * 256 + b[4] = w[2]

\* the bytes from p on are fewer than a Data Record's header and declared
\* sizes need
ShortData(s, p) ==
    \/ Len(s) - p < 28
    \/ Len(s) - p < 28 + (s[p + 18] * 65536 + s[p + 19] * 256 + s[p + 20])
                       + (s[p + 26] * 65536 + s[p + 27] * 256 + s[p + 28])

\* the bytes from p on are fewer than an Index Record's header and declared
\* key size need
ShortHint(s, p) ==
    \/ Len(s) - p < 32
    \/ Len(s) - p < 32 + (s[p + 14] * 65536 + s[p + 15] * 256 + s[p + 16])

Intact == harm = NoHarm

Last == results[Len(results)]

\* C1: on an undamaged data log, the i-th decode returns Ok with the level,
\* key and value given to the i-th DataEntry::new, key_size and value_size
\* their lengths, and check_crc() on it returns true (empty key and empty
\* value included).
C1_DataRoundTrip ==
    (file = "data" /\ Intact) =>
        \A i \in DOMAIN results : i <= Len(written) =>
            LET w == written[i]
                r == results[i]
            IN  /\ r.st = "ok"
                /\ r.rec.level = w.level
                /\ r.rec.key = w.key
                /\ r.rec.value = w.value
                /\ r.rec.key_size = Len(w.key)
                /\ r.rec.value_size = Len(w.value)
                /\ r.checked => r.answer

C1_Witness ==
    /\ file = "data" /\ Intact /\ Len(written) = 1 /\ Len(results) = 1
    /\ written[1].key = <<>> /\ written[1].value = <<>>
    /\ written[1].level = -1
    /\ Last.st = "ok" /\ Last.checked /\ Last.answer

\* C2: every DataEntry::decode on a stream whose remaining bytes are fewer
\* than 28 + declared key_size + declared value_size returns an error.
C2_ShortDataStreamFails ==
    file = "data" =>
        \A i \in DOMAIN results :
            ShortData(stream, results[i].start) => results[i].st = "err"

\* C3: every HintEntry::decode on a stream whose remaining bytes are fewer
\* than 32 + declared key_size returns an error.
C3_ShortHintStreamFails ==
    file = "hint" =>
        \A i \in DOMAIN results :
            ShortHint(stream, results[i].start) => results[i].st = "err"

\* C4: on an undamaged hint stream, the i-th decode returns Ok with the
\* level, key_size, value_size and key of the entry given to HintEntry::from
\* and its position, or, for HintEntry::tombstone(k), with level -1,
\* key_size len(k), value_size 0, position 0 and key k.
C4_HintRoundTrip ==
    (file = "hint" /\ Intact) =>
        \A i \in DOMAIN results : i <= Len(written) =>
            LET w == written[i]
                r == results[i]
            IN  /\ r.st = "ok"
                /\ w.op = "from" =>
                    /\ r.rec.level = w.entry.level
                    /\ r.rec.key_size = w.entry.key_size
                    /\ r.rec.value_size = w.entry.value_size
                    /\ r.rec.key = w.entry.key
                    /\ r.rec.data_entry_position = w.position
                /\ w.op = "tombstone" =>
                    /\ r.rec.level = -1
                    /\ r.rec.key_size = Len(w.key)
                    /\ r.rec.value_size = 0
                    /\ r.rec.data_entry_position = 0
                    /\ r.rec.key = w.key

C4_Witness ==
    /\ file = "hint" /\ Intact /\ Len(written) = 1 /\ Len(results) = 1
    /\ Last.st = "ok"
    /\ written[1].op = "from" /\ written[1].position > 0
    /\ written[1].entry.key # <<>> /\ written[1].entry.value # <<>>

\* C5: is_deleted() is true exactly when level < 0, value_size = 0 and
\* data_entry_position = 0; it is true of tombstone(k) and false of
\* from(r, p) with p > 0, before and after an encode and decode.
C5_TombstonePredicate ==
    file = "hint" =>
        /\ \A i \in DOMAIN results : results[i].checked =>
                results[i].answer =
                    (/\ results[i].rec.level < 0
                     /\ results[i].rec.value_size = 0
                     /\ results[i].rec.data_entry_position = 0)
        /\ \A i \in DOMAIN written :
                /\ written[i].op = "tombstone" => is_deleted(Built(written[i]))
                /\ (written[i].op = "from" /\ written[i].position > 0)
                        => ~is_deleted(Built(written[i]))
        /\ Intact => \A i \in DOMAIN results :
                (i <= Len(written) /\ results[i].checked) =>
                    /\ written[i].op = "tombstone" => results[i].answer
                    /\ (written[i].op = "from" /\ written[i].position > 0)
                            => ~results[i].answer

C5_Witness ==
    /\ file = "hint" /\ Intact /\ Len(written) = 1 /\ Len(results) = 1
    /\ written[1].op = "from" /\ written[1].position > 0
    /\ written[1].entry.level < 0 /\ written[1].entry.value = <<>>
    /\ Last.checked /\ ~Last.answer

\* the damage is one flipped bit in the bytes `range` of a one-record data log
FlippedIn(range) ==
    file = "data" /\ harm.kind = "flip" /\ harm.at \in range

\* C6 as stated: after a flip of any one bit from offset 4 on (level,
\* key_size, value_size, key or value), the decoded record never passes
\* check_crc().
C6_AnyContentFlipDetected ==
    (FlippedIn(5..Len(stream)) /\ results # <<>>) =>
        ~(results[1].st = "ok" /\ results[1].checked /\ results[1].answer)

\* C6 as amended: after a flip of any one bit of the level, the key or the
\* value (the size fields and the checksum left as written), the decoded
\* record never passes check_crc().
C6_FieldFlipDetected ==
    (FlippedIn((5..12) \cup (29..Len(stream))) /\ results # <<>>) =>
        ~(results[1].st = "ok" /\ results[1].checked /\ results[1].answer)

C6_Witness ==
    /\ FlippedIn(29..Len(stream)) /\ Len(results) = 1
    /\ Last.st = "ok" /\ Last.checked /\ ~Last.answer

\* the last decode call and the last check_crc() call, as C7 has them
C7_State ==
    (file = "data" /\ results # <<>>) =>
        /\ ~ShortData(stream, Last.start) => Last.st = "ok"
        /\ Last.checked =>
            Last.answer =
                (Last.rec.crc =
                    crc_checksum(I64ToBe(Last.rec.level)
                        \o U64ToBe(Last.rec.key_size)
                        \o U64ToBe(Last.rec.value_size)
                        \o Last.rec.key \o Last.rec.value))

\* C7: DataEntry::decode on a stream with at least 28 + declared key_size +
\* declared value_size bytes left returns Ok whatever the checksum bytes
\* are; check_crc() answers whether the stored checksum is the digest of
\* level ++ key_size ++ value_size ++ key ++ value; no step changes a
\* record once decoded.
C7_ChecksumNotDecodeError ==
    /\ []C7_State
    /\ [][\A i \in DOMAIN results :
            /\ i \in DOMAIN results'
            /\ results'[i].st = results[i].st
            /\ results'[i].rec = results[i].rec]_vars

C7_Witness ==
    /\ FlippedIn(1..4) /\ Len(results) = 1
    /\ Last.st = "ok" /\ Last.checked /\ ~Last.answer

\* C8: the encoding of a Data Record is 28 + len(key) + len(value) bytes:
\* checksum(4) | level(8) | key_size(8) | value_size(8) | key | value,
\* big-endian, the checksum the digest of the bytes after it; that of an
\* Index Record is 32 + len(key) bytes: level(8) | key_size(8) |
\* value_size(8) | data_entry_position(8) | key.
C8_EncodedLayout ==
    (Writing /\ written # <<>>) =>
        LET n == Len(written)
            w == written[n]
            e == Built(w)
            b == SubSeq(stream, LayoutOff(n) + 1, Len(stream))
        IN  /\ Len(stream) = LayoutOff(n) + LayoutLen(w)
            /\ w.op = "new" =>
                /\ IsBigEndian32(SubSeq(b, 1, 4),
                                 crc_checksum(SubSeq(b, 5, Len(b))))
                /\ IsBigEndian64(SubSeq(b, 5, 12), w.level)
                /\ IsBigEndian64(SubSeq(b, 13, 20), Len(w.key))
                /\ IsBigEndian64(SubSeq(b, 21, 28), Len(w.value))
                /\ SubSeq(b, 29, 28 + Len(w.key)) = w.key
                /\ SubSeq(b, 29 + Len(w.key), Len(b)) = w.value
            /\ w.op # "new" =>
                /\ IsBigEndian64(SubSeq(b, 1, 8), e.level)
                /\ IsBigEndian64(SubSeq(b, 9, 16), e.key_size)
                /\ IsBigEndian64(SubSeq(b, 17, 24), e.value_size)
                /\ IsBigEndian64(SubSeq(b, 25, 32), e.data_entry_position)
                /\ SubSeq(b, 33, Len(b)) = e.key

C8_Witness ==
    /\ file = "data" /\ Writing /\ Len(written) = 2
    /\ written[2].level < 0
    /\ written[2].key # <<>> /\ written[2].value # <<>>
    /\ Len(stream) = LayoutOff(2) + 39

\* C9: n decodes on one cursor over the encodings of n records return the
\* records in append order, each passing check_crc() and each advancing
\* the cursor from the record's offset by 28 + key_size + value_size; one
\* more decode returns an error.
C9_SequentialScan ==
    (file = "data" /\ Intact) =>
        \A i \in DOMAIN results :
            LET r == results[i] IN
            IF i <= Len(written)
            THEN /\ r.st = "ok"
                 /\ r.rec.level = written[i].level
                 /\ r.rec.key = written[i].key
                 /\ r.rec.value = written[i].value
                 /\ r.start = LayoutOff(i)
                 /\ r.end = r.start + 28 + r.rec.key_size + r.rec.value_size
                 /\ r.checked => r.answer
            ELSE r.st = "err" /\ r.start = Len(stream)

C9_Witness ==
    /\ file = "data" /\ Intact /\ Len(written) >= 2
    /\ Len(results) = Len(written) + 1
    /\ written[1].value # written[2].value
    /\ Last.st = "err"
    /\ \A i \in 1..Len(written) : results[i].checked /\ results[i].answer

\* C10: key_size = len(key) and value_size = len(value) in every DataEntry
\* from new or from a decode that returned Ok, on any stream; key_size =
\* len(key) in every HintEntry from tombstone or from a decode that returned
\* Ok; from(r, p) has the lengths of r's key and value as its sizes.
C10_SizeFields ==
    /\ \A i \in DOMAIN results : results[i].st = "ok" =>
            /\ results[i].rec.key_size = Len(results[i].rec.key)
            /\ file = "data" =>
                    results[i].rec.value_size = Len(results[i].rec.value)
    /\ \A i \in DOMAIN written :
            LET w == written[i] IN
            /\ w.op = "new" =>
                    /\ Built(w).key_size = Len(w.key)
                    /\ Built(w).value_size = Len(w.value)
            /\ w.op = "tombstone" => Built(w).key_size = Len(w.key)
            /\ w.op = "from" =>
                    /\ Built(w).key_size = Len(w.entry.key)
                    /\ Built(w).value_size = Len(w.entry.value)

C10_Witness ==
    /\ file = "data" /\ harm.kind = "cut" /\ results # <<>>
    /\ Last.st = "ok" /\ Last.rdr = "fill"
    /\ Last.rec.key_size = 5 /\ Last.rec.value_size = 6
    /\ Last.rec.key # <<2, 2, 3, 54, 12>>

====
